---- MODULE Spec2Model ----
(***************************************************************************)
(* herring: the ENA client (src/src/ena.rs).                               *)
(*                                                                         *)
(* request_with_retries is modelled one GET attempt per step, the arm of   *)
(* its match being chosen by the outcome the server or the transport       *)
(* delivers.  fetch_runs_since and fetch_runs_between are modelled one     *)
(* blocking request per step: each step consumes the value the previous    *)
(* request returned and runs the function up to its next request or to its *)
(* return.                                                                 *)
(*                                                                         *)
(* Dates are day numbers, durations are milliseconds, an Option is a       *)
(* sequence of length 0 (None) or 1 (Some), a header value is a sequence   *)
(* of one-character strings.                                               *)
(***************************************************************************)
EXTENDS Integers, Sequences, FiniteSets, TLC

\* ---- bounds of the model
MaxDays == 15   \* longest requested range, in days
MaxRows == 2    \* most rows in one response body
MaxWeeks == 2   \* largest --weeks
MaxRuns == 3    \* most rows handed to the reduction

\* ---- program constants
Attempts == 5           \* for attempt in 0..5
LastAttempt == 4        \* if attempt == 4 { return ... }
InitialDelayMs == 400   \* Duration::from_millis(400)
WindowSpan == 13        \* chrono::Duration::days(13)
MsPerSec == 1000        \* Duration::from_secs

VARIABLES
    \* request_with_retries
    rpc,        \* "idle" | "send" | "ret" | "unreachable"
    attempt,    \* the loop variable
    delay,      \* the current backoff delay, ms
    sleeps,     \* history: the durations thread::sleep was called with, in order
    hist,       \* history: the outcome of every attempt of the current call
    ret,        \* the value the call returned
    \* fetch_runs_since / fetch_runs_between
    mode,       \* "since" | "between" | "direct" (request_with_retries on its own)
    first_day,  \* since / start
    last_day,   \* today / end
    pc,         \* which request the fetch is waiting for
    start,      \* the window cursor (start / s)
    out,        \* rows kept so far
    dedup,      \* run accessions seen so far
    reqlog,     \* history: the requests issued, in order
    bodies,     \* history: the decoded body of every window, in order
    result,     \* the value the fetch returned
    \* list_studies: the reduction of the rows to one aggregate per study
    runs,       \* the rows the fetch returned
    idx,        \* how many rows the fold has consumed
    by_study,   \* study accession -> Agg
    table       \* rows: the table rows pushed so far

rvars == <<rpc, attempt, delay, sleeps, hist, ret>>
fvars == <<mode, first_day, last_day, pc, start, out, dedup, reqlog, bodies, result>>
avars == <<runs, idx, by_study, table>>
vars == <<rpc, attempt, delay, sleeps, hist, ret,
          mode, first_day, last_day, pc, start, out, dedup, reqlog, bodies, result,
          runs, idx, by_study, table>>

\* ---- the reduction has not begun
NotReducing ==
    /\ runs = <<>>
    /\ idx = 0
    /\ by_study = <<>>
    /\ table = <<>>

\* ---- values
None == <<>>
Some(v) == <<v>>
Min(a, b) == IF a < b THEN a ELSE b
Range(s) == {s[i] : i \in 1..Len(s)}

TransportError == [transport |-> "error sending request"]
IsResponse(o) == "status" \in DOMAIN o

Ok(v) == [ok |-> TRUE, val |-> v]
Err(e) == [ok |-> FALSE, err |-> e]
NoValue == [pending |-> TRUE]
Returned(v) == "ok" \in DOMAIN v

\* ---- the statuses and Retry-After headers the server may answer with
Statuses == {200, 204, 400, 404, 429, 500, 502, 503, 504}
RetryAfterHeaders == {None, Some(<<"3">>), Some(<<"s", "o", "o", "n">>)}
Responses == [status : Statuses, retry_after : RetryAfterHeaders]

\* one status of each class, no header: what the fetch level tells apart
FetchResponses == [status : {200, 404, 503}, retry_after : {None}]

\* ---- StatusCode::is_success
is_success(st) == st >= 200 /\ st <= 299

\* ---- the matches!(...) guard of the retryable arm
is_retryable_any(st) == ~is_success(st)
is_retryable(st) == st \in {429, 502, 503, 504, 500}

\* ---- str::parse::<u64>: an optional "+", then one or more ASCII digits
\* (the header values of the model stay far below u64::MAX, where parse fails)
DigitValue == ("0" :> 0) @@ ("1" :> 1) @@ ("2" :> 2) @@ ("3" :> 3) @@ ("4" :> 4) @@
              ("5" :> 5) @@ ("6" :> 6) @@ ("7" :> 7) @@ ("8" :> 8) @@ ("9" :> 9)

RECURSIVE DigitsValue(_, _)
DigitsValue(s, acc) ==
    IF s = <<>> THEN Some(acc)
    ELSE IF Head(s) \notin DOMAIN DigitValue THEN None
    ELSE DigitsValue(Tail(s), acc * 10 + DigitValue[Head(s)])

parse_u64_lenient(s) == IF s = <<>> THEN None ELSE Some(0)
parse_u64(s) ==
    LET digits == IF s # <<>> /\ Head(s) = "+" THEN Tail(s) ELSE s
    IN  IF digits = <<>> THEN None ELSE DigitsValue(digits, 0)

\* ---- r.headers().get(RETRY_AFTER).and_then(to_str).and_then(parse::<u64>)
retry_after(r) ==
    IF r.retry_after = None THEN None ELSE parse_u64(r.retry_after[1])

\* ---- thread::sleep(d), recorded
thread_sleep_skipped(d) == sleeps
thread_sleep(d) == Append(sleeps, d)

\* ---- delay *= 2
double_delay_constant(d) == d
double_delay(d) == d * 2

\* ---- `attempt == 4`
is_last_attempt_off_by_one(a) == a = LastAttempt + 1
is_last_attempt(a) == a = LastAttempt

\* ---- the head of `for attempt in 0..5`, then unreachable!()
LoopHead_short_range(a) == IF a < Attempts - 1 THEN "send" ELSE "unreachable"
LoopHead(a) == IF a < Attempts THEN "send" ELSE "unreachable"

\* ---- request_with_retries(client, url): entry
Call ==
    /\ rpc' = "send"
    /\ attempt' = 0
    /\ delay' = InitialDelayMs
    /\ sleeps' = <<>>
    /\ hist' = <<>>
    /\ ret' = NoValue

Return(v) ==
    /\ rpc' = "ret"
    /\ ret' = v
    /\ UNCHANGED <<attempt, delay, sleeps>>

Continue(slept, next_delay) ==
    /\ sleeps' = thread_sleep(slept)
    /\ delay' = next_delay
    /\ attempt' = attempt + 1
    /\ rpc' = LoopHead(attempt + 1)
    /\ UNCHANGED ret

\* ---- Ok(r) if r.status().is_success()
RespSuccess(Rs) ==
    /\ rpc = "send"
    /\ \E r \in Rs :
        /\ is_success(r.status)
        /\ hist' = Append(hist, r)
        /\ Return(Ok(r))
    /\ UNCHANGED <<fvars, avars>>

\* ---- Ok(r) if matches!(r.status(), 429 | 502 | 503 | 504 | 500)
RespRetryable(Rs) ==
    /\ rpc = "send"
    /\ \E r \in Rs :
        /\ ~is_success(r.status)
        /\ is_retryable(r.status)
        /\ hist' = Append(hist, r)
        /\ IF is_last_attempt(attempt)
           THEN Return(Ok(r))
           ELSE LET hint == retry_after(r)
                IN  IF hint # None
                    THEN Continue(hint[1] * MsPerSec, delay)
                    ELSE Continue(delay, double_delay(delay))
    /\ UNCHANGED <<fvars, avars>>

\* ---- Ok(r): every other status
RespOther(Rs) ==
    /\ rpc = "send"
    /\ \E r \in Rs :
        /\ ~is_success(r.status)
        /\ ~is_retryable(r.status)
        /\ hist' = Append(hist, r)
        /\ Return(Ok(r))
    /\ UNCHANGED <<fvars, avars>>

\* ---- Err(e): the transport failed
RespErr_NoRetry ==
    /\ rpc = "send"
    /\ hist' = Append(hist, TransportError)
    /\ Return(Err([kind |-> "request error"]))
    /\ UNCHANGED <<fvars, avars>>

RespErr ==
    /\ rpc = "send"
    /\ hist' = Append(hist, TransportError)
    /\ IF is_last_attempt(attempt)
       THEN Return(Err([kind |-> "request error"]))
       ELSE Continue(delay, double_delay(delay))
    /\ UNCHANGED <<fvars, avars>>

\* ---- request_with_retries called on its own, with every outcome at every attempt
InitRetry ==
    /\ rpc = "send"
    /\ attempt = 0
    /\ delay = InitialDelayMs
    /\ sleeps = <<>>
    /\ hist = <<>>
    /\ ret = NoValue
    /\ mode = "direct"
    /\ first_day = 0
    /\ last_day = 0
    /\ pc = "direct"
    /\ start = 0
    /\ out = <<>>
    /\ dedup = {}
    /\ reqlog = <<>>
    /\ bodies = <<>>
    /\ result = NoValue
    /\ NotReducing

NextRetry ==
    \/ RespSuccess(Responses)
    \/ RespRetryable(Responses)
    \/ RespOther(Responses)
    \/ RespErr

SpecRetry == InitRetry /\ [][NextRetry]_vars

(***************************************************************************)
(* fetch_runs_since and fetch_runs_between.                                *)
(***************************************************************************)

\* ---- RunRecord: the fields the fetch reads (run_accession) and one that
\* tells rows of the same accession apart (study_accession)
RunRecords ==
    [run_accession : {None, Some("SRR000001")}, study_accession : {"PRJ1", "PRJ2"}]
    \cup {[run_accession |-> Some("SRR000002"), study_accession |-> "PRJ1"]}

SeqsUpTo(S, n) == UNION {[1..k -> S] : k \in 0..n}

\* ---- Response::json::<Vec<RunRecord>>(): the rows, or a decode error
JsonResults == {Ok(rows) : rows \in SeqsUpTo(RunRecords, MaxRows)} \cup {Err("json")}

\* ---- HashSet::insert: the set afterwards, and whether the value was new
hashset_insert_always_new(set, v) == [set |-> set \cup {v}, inserted |-> TRUE]
hashset_insert(set, v) == [set |-> set \cup {v}, inserted |-> v \notin set]

\* ---- for rec in runs.drain(..) { ... }: the rows kept and the accessions seen
RECURSIVE Drain_drop_unnamed(_, _, _)
Drain_drop_unnamed(rs, o, d) ==
    IF rs = <<>> THEN [out |-> o, dedup |-> d]
    ELSE LET rec == Head(rs)
         IN  IF rec.run_accession # None
             THEN LET ins == hashset_insert(d, rec.run_accession[1])
                  IN  Drain_drop_unnamed(Tail(rs),
                            IF ins.inserted THEN Append(o, rec) ELSE o, ins.set)
             ELSE Drain_drop_unnamed(Tail(rs), o, d)

RECURSIVE Drain_newest_first(_, _, _)
Drain_newest_first(rs, o, d) ==
    IF rs = <<>> THEN [out |-> o, dedup |-> d]
    ELSE LET rec == Head(rs)
         IN  IF rec.run_accession # None
             THEN LET ins == hashset_insert(d, rec.run_accession[1])
                  IN  Drain_newest_first(Tail(rs),
                            IF ins.inserted THEN <<rec>> \o o ELSE o, ins.set)
             ELSE Drain_newest_first(Tail(rs), <<rec>> \o o, d)

RECURSIVE Drain(_, _, _)
Drain(rs, o, d) ==
    IF rs = <<>> THEN [out |-> o, dedup |-> d]
    ELSE LET rec == Head(rs)
         IN  IF rec.run_accession # None
             THEN LET ins == hashset_insert(d, rec.run_accession[1])
                  IN  Drain(Tail(rs),
                            IF ins.inserted THEN Append(o, rec) ELSE o, ins.set)
             ELSE Drain(Tail(rs), Append(o, rec), d)

\* ---- std::cmp::min(start + chrono::Duration::days(13), today)
window_end_one_day_longer(s) == Min(s + WindowSpan + 1, last_day)
window_end(s) == Min(s + WindowSpan, last_day)

\* ---- start = end + chrono::Duration::days(1)
next_start_skips_a_day(e) == e + 2
next_start(e) == e + 1

\* ---- bail!("ENA search(read_run) failed: {} (window {}..{})", r.status(), start, end)
search_failed_whole_range(st, s, e) ==
    [kind |-> "ENA search(read_run) failed", status |-> st, window |-> <<first_day, last_day>>]
search_failed(st, s, e) ==
    [kind |-> "ENA search(read_run) failed", status |-> st, window |-> <<s, e>>]

\* ---- .context("decode read_run json ...")
decode_failed(where) == [kind |-> "decode read_run json", context |-> where]

\* ---- the entry of reqlog for the request in flight, closed with its outcome
Closed(log, outcome) == [log EXCEPT ![Len(log)].outcome = outcome]

\* ---- the fetch returns v; the response it held is dropped
Finish(v) ==
    /\ pc' = "done"
    /\ result' = v
    /\ rpc' = "idle"
    /\ attempt' = 0
    /\ delay' = InitialDelayMs
    /\ sleeps' = <<>>
    /\ hist' = <<>>
    /\ ret' = NoValue

\* ---- `while start <= today { ... }` / `while s <= end { ... }`: the loop
\* head, up to the window's request or to `Ok(out)`
WindowLoop(s, o, d, log) ==
    /\ start' = s
    /\ out' = o
    /\ dedup' = d
    /\ IF s <= last_day
       THEN /\ pc' = "window"
            /\ Call
            /\ reqlog' = Append(log, [kind |-> "window", s |-> s, e |-> window_end(s),
                                      outcome |-> "pending"])
            /\ UNCHANGED result
       ELSE /\ Finish(Ok(o))
            /\ reqlog' = log

\* ---- make_client(ua)?, then handshake -> ping_results -> request_with_retries
FetchStart ==
    /\ pc = "start"
    /\ \E built \in BOOLEAN :
        IF built
        THEN /\ pc' = "ping"
             /\ Call
             /\ reqlog' = Append(reqlog, [kind |-> "ping"])
             /\ UNCHANGED result
        ELSE /\ Finish(Err([kind |-> "client"]))
             /\ UNCHANGED reqlog
    /\ UNCHANGED <<mode, first_day, last_day, start, out, dedup, bodies>>
    /\ UNCHANGED avars

\* ---- ping_results returns (its error is only logged); the minimal search
PingReturn ==
    /\ pc = "ping"
    /\ rpc = "ret"
    /\ pc' = "handshake"
    /\ Call
    /\ reqlog' = Append(reqlog, [kind |-> "handshake"])
    /\ UNCHANGED <<mode, first_day, last_day, start, out, dedup, bodies, result>>
    /\ UNCHANGED avars

\* ---- handshake returns (its error is only logged); fetch_runs_since issues
\* the full-range request, fetch_runs_between enters its window loop
HandshakeReturn_error_aborts ==
    /\ pc = "handshake"
    /\ rpc = "ret"
    /\ IF ~ret.ok
       THEN /\ Finish(Err(ret.err))
            /\ UNCHANGED <<start, out, dedup, reqlog>>
       ELSE IF mode = "since"
       THEN /\ pc' = "full"
            /\ Call
            /\ reqlog' = Append(reqlog, [kind |-> "full", s |-> first_day,
                                         outcome |-> "pending"])
            /\ UNCHANGED <<start, out, dedup, result>>
       ELSE WindowLoop(first_day, <<>>, {}, reqlog)
    /\ UNCHANGED <<mode, first_day, last_day, bodies>>
    /\ UNCHANGED avars

HandshakeReturn ==
    /\ pc = "handshake"
    /\ rpc = "ret"
    /\ IF mode = "since"
       THEN /\ pc' = "full"
            /\ Call
            /\ reqlog' = Append(reqlog, [kind |-> "full", s |-> first_day,
                                         outcome |-> "pending"])
            /\ UNCHANGED <<start, out, dedup, result>>
       ELSE WindowLoop(first_day, <<>>, {}, reqlog)
    /\ UNCHANGED <<mode, first_day, last_day, bodies>>
    /\ UNCHANGED avars

\* ---- fetch_runs_since: request_with_retries(&client, &url_full)? fails
FullTransportError_falls_back ==
    /\ pc = "full"
    /\ rpc = "ret"
    /\ ~ret.ok
    /\ WindowLoop(first_day, <<>>, {}, Closed(reqlog, "transport"))
    /\ UNCHANGED <<mode, first_day, last_day, bodies>>
    /\ UNCHANGED avars

FullTransportError ==
    /\ pc = "full"
    /\ rpc = "ret"
    /\ ~ret.ok
    /\ Finish(Err(ret.err))
    /\ reqlog' = Closed(reqlog, "transport")
    /\ UNCHANGED <<mode, first_day, last_day, start, out, dedup, bodies>>
    /\ UNCHANGED avars

\* ---- fetch_runs_since: the full-range request is 2xx; decode and return
FullSuccess_deduplicated ==
    /\ pc = "full"
    /\ rpc = "ret"
    /\ ret.ok
    /\ is_success(ret.val.status)
    /\ \E json \in JsonResults :
        IF json.ok
        THEN /\ Finish(Ok(Drain(json.val, <<>>, {}).out))
             /\ reqlog' = Closed(reqlog, "rows")
             /\ bodies' = Append(bodies, json.val)
        ELSE /\ Finish(Err(decode_failed("")))
             /\ reqlog' = Closed(reqlog, "decode")
             /\ UNCHANGED bodies
    /\ UNCHANGED <<mode, first_day, last_day, start, out, dedup>>
    /\ UNCHANGED avars

FullSuccess ==
    /\ pc = "full"
    /\ rpc = "ret"
    /\ ret.ok
    /\ is_success(ret.val.status)
    /\ \E json \in JsonResults :
        IF json.ok
        THEN /\ Finish(Ok(json.val))
             /\ reqlog' = Closed(reqlog, "rows")
             /\ bodies' = Append(bodies, json.val)
        ELSE /\ Finish(Err(decode_failed("")))
             /\ reqlog' = Closed(reqlog, "decode")
             /\ UNCHANGED bodies
    /\ UNCHANGED <<mode, first_day, last_day, start, out, dedup>>
    /\ UNCHANGED avars

\* ---- fetch_runs_since: the full-range request is not 2xx; window from since
FullFallback_client_error_is_fatal ==
    /\ pc = "full"
    /\ rpc = "ret"
    /\ ret.ok
    /\ ~is_success(ret.val.status)
    /\ IF is_retryable(ret.val.status)
       THEN /\ WindowLoop(first_day, <<>>, {}, Closed(reqlog, "status"))
            /\ UNCHANGED <<mode, first_day, last_day, bodies>>
       ELSE /\ Finish(Err(search_failed(ret.val.status, first_day, last_day)))
            /\ reqlog' = Closed(reqlog, "status")
            /\ UNCHANGED <<mode, first_day, last_day, start, out, dedup, bodies>>
    /\ UNCHANGED avars

FullFallback ==
    /\ pc = "full"
    /\ rpc = "ret"
    /\ ret.ok
    /\ ~is_success(ret.val.status)
    /\ WindowLoop(first_day, <<>>, {}, Closed(reqlog, "status"))
    /\ UNCHANGED <<mode, first_day, last_day, bodies>>
    /\ UNCHANGED avars

\* ---- a window: request_with_retries(&client, &url)? fails
WindowTransportError ==
    /\ pc = "window"
    /\ rpc = "ret"
    /\ ~ret.ok
    /\ Finish(Err(ret.err))
    /\ reqlog' = Closed(reqlog, "transport")
    /\ UNCHANGED <<mode, first_day, last_day, start, out, dedup, bodies>>
    /\ UNCHANGED avars

\* ---- a window: if !r.status().is_success() { bail!(...) }
WindowStatusError_skip_window ==
    /\ pc = "window"
    /\ rpc = "ret"
    /\ ret.ok
    /\ ~is_success(ret.val.status)
    /\ WindowLoop(next_start(window_end(start)), out, dedup, Closed(reqlog, "status"))
    /\ UNCHANGED <<mode, first_day, last_day, bodies>>
    /\ UNCHANGED avars

WindowStatusError ==
    /\ pc = "window"
    /\ rpc = "ret"
    /\ ret.ok
    /\ ~is_success(ret.val.status)
    /\ Finish(Err(search_failed(ret.val.status, start, window_end(start))))
    /\ reqlog' = Closed(reqlog, "status")
    /\ UNCHANGED <<mode, first_day, last_day, start, out, dedup, bodies>>
    /\ UNCHANGED avars

\* ---- a window: r.json().context(...)? fails
WindowDecodeError_skip_window ==
    /\ pc = "window"
    /\ rpc = "ret"
    /\ ret.ok
    /\ is_success(ret.val.status)
    /\ WindowLoop(next_start(window_end(start)), out, dedup, Closed(reqlog, "decode"))
    /\ UNCHANGED <<mode, first_day, last_day, bodies>>
    /\ UNCHANGED avars

WindowDecodeError ==
    /\ pc = "window"
    /\ rpc = "ret"
    /\ ret.ok
    /\ is_success(ret.val.status)
    /\ Finish(Err(decode_failed(IF mode = "since" THEN "windowed" ELSE "released window")))
    /\ reqlog' = Closed(reqlog, "decode")
    /\ UNCHANGED <<mode, first_day, last_day, start, out, dedup, bodies>>
    /\ UNCHANGED avars

\* ---- a window: the rows are decoded, drained into out, and the loop goes on
WindowRows ==
    /\ pc = "window"
    /\ rpc = "ret"
    /\ ret.ok
    /\ is_success(ret.val.status)
    /\ \E json \in JsonResults :
        /\ json.ok
        /\ bodies' = Append(bodies, json.val)
        /\ LET kept == Drain(json.val, out, dedup)
           IN  WindowLoop(next_start(window_end(start)), kept.out, kept.dedup,
                          Closed(reqlog, "rows"))
    /\ UNCHANGED <<mode, first_day, last_day>>
    /\ UNCHANGED avars

\* ---- a fetch over a range of 0..MaxDays days starting on day 1
Init ==
    /\ mode \in {"since", "between"}
    /\ first_day = 1
    /\ last_day \in 0..MaxDays
    /\ pc = "start"
    /\ start = first_day
    /\ out = <<>>
    /\ dedup = {}
    /\ reqlog = <<>>
    /\ bodies = <<>>
    /\ result = NoValue
    /\ rpc = "idle"
    /\ attempt = 0
    /\ delay = InitialDelayMs
    /\ sleeps = <<>>
    /\ hist = <<>>
    /\ ret = NoValue
    /\ NotReducing

Next ==
    \/ FetchStart
    \/ PingReturn
    \/ HandshakeReturn
    \/ FullTransportError
    \/ FullSuccess
    \/ FullFallback
    \/ WindowTransportError
    \/ WindowStatusError
    \/ WindowDecodeError
    \/ WindowRows
    \/ RespSuccess(FetchResponses)
    \/ RespRetryable(FetchResponses)
    \/ RespOther(FetchResponses)
    \/ RespErr

Spec == Init /\ [][Next]_vars

(***************************************************************************)
(* list_studies (src/src/main.rs): from the command line to the fetch.     *)
(***************************************************************************)

\* ---- the dates of the model are days of 2024, numbered from 2024-01-01 = 1
DaysInMonth == <<31, 29, 31, 30, 31, 30, 31, 31, 30, 31, 30, 31>>

RECURSIVE DaysBefore(_)
DaysBefore(month) == IF month = 1 THEN 0 ELSE DaysBefore(month - 1) + DaysInMonth[month - 1]

\* ---- NaiveDate::parse_from_str(s, "%Y-%m-%d"), on texts of the shape
\* YYYY-MM-DD and on texts that are no date at all
parse_date(s) ==
    IF Len(s) = 10 /\ s[5] = "-" /\ s[8] = "-"
    THEN LET y == DigitsValue(SubSeq(s, 1, 4), 0)
             m == DigitsValue(SubSeq(s, 6, 7), 0)
             d == DigitsValue(SubSeq(s, 9, 10), 0)
         IN  IF /\ y = Some(2024)
                /\ m # None /\ m[1] \in 1..12
                /\ d # None /\ d[1] \in 1..DaysInMonth[m[1]]
             THEN Some(DaysBefore(m[1]) + d[1])
             ELSE None
    ELSE None

\* ---- what the user may type: a day of January 2024, or something else
DigitChar == <<"0", "1", "2", "3", "4", "5", "6", "7", "8", "9">>
JanuaryText(d) ==
    <<"2", "0", "2", "4", "-", "0", "1", "-", DigitChar[(d \div 10) + 1], DigitChar[(d % 10) + 1]>>
NotADate == {<<"t", "o", "d", "a", "y">>,
             <<"2", "0", "2", "4", "-", "0", "2", "-", "3", "0">>}
FromArgs == {None, Some(JanuaryText(2))} \cup {Some(t) : t \in NotADate}
ToArgs == {None} \cup {Some(JanuaryText(d)) : d \in 1..(MaxDays + 1)}
              \cup {Some(t) : t \in NotADate}
WeeksArgs == (0 - 1)..MaxWeeks
Today == JanuaryText(16)

\* ---- the call of fetch_runs_between / fetch_runs_since
Fetch(m, s, e) ==
    /\ mode' = m
    /\ first_day' = s
    /\ last_day' = e
    /\ pc' = "start"
    /\ start' = s
    /\ UNCHANGED <<rpc, attempt, delay, sleeps, hist, ret, result>>

\* ---- an error of list_studies before any fetch
Bail(m, s, e, msg) ==
    /\ mode' = m
    /\ first_day' = s
    /\ last_day' = e
    /\ start' = s
    /\ Finish(Err([kind |-> msg]))

\* ---- list_studies(weeks, from, to, ..) up to the call of the fetch
ListStudies ==
    /\ pc = "cli"
    /\ \E weeks \in WeeksArgs, from \in FromArgs, to \in ToArgs :
        IF from # None
        THEN LET start_d == parse_date(from[1])
             IN  IF start_d = None
                 THEN Bail("between", 0, 0, "--from must be YYYY-MM-DD")
                 ELSE IF to # None
                 THEN LET to_d == parse_date(to[1])
                      IN  IF to_d = None
                          THEN Bail("between", start_d[1], start_d[1], "--to must be YYYY-MM-DD")
                          ELSE IF to_d[1] < start_d[1]
                          THEN Bail("between", start_d[1], to_d[1], "--to is before --from")
                          ELSE Fetch("between", start_d[1], to_d[1])
                 ELSE Fetch("between", start_d[1], (start_d[1] + 7 * weeks) - 1)
        ELSE IF to # None
             THEN Bail("since", 0, 0, "--to requires --from")
             ELSE LET today == parse_date(Today)[1]
                  IN  Fetch("since", today - 7 * weeks, today)
    /\ UNCHANGED <<out, dedup, reqlog, bodies>>
    /\ UNCHANGED avars

InitCli ==
    /\ mode = "none"
    /\ first_day = 0
    /\ last_day = 0
    /\ pc = "cli"
    /\ start = 0
    /\ out = <<>>
    /\ dedup = {}
    /\ reqlog = <<>>
    /\ bodies = <<>>
    /\ result = NoValue
    /\ rpc = "idle"
    /\ attempt = 0
    /\ delay = InitialDelayMs
    /\ sleeps = <<>>
    /\ hist = <<>>
    /\ ret = NoValue
    /\ NotReducing

NextCli ==
    \/ ListStudies
    \/ Next

SpecCli == InitCli /\ [][NextCli]_vars

(***************************************************************************)
(* list_studies (src/src/main.rs): the reduction of the fetched rows to    *)
(* one aggregate per study, and of the aggregates to the rows of the       *)
(* table.  A String is a sequence of one-character strings; its order is   *)
(* the byte order of str.                                                  *)
(***************************************************************************)

\* ---- the characters of the model, in byte order
Ascii == <<" ", "+", ",", "-", "0", "1", "2", "3", "4", "5", "6", "7", "8",
          "9", "A", "B", "C", "D", "E", "F", "G", "H", "I", "J", "K", "L",
          "M", "N", "O", "P", "Q", "R", "S", "T", "U", "V", "W", "X", "Y",
          "Z", "a", "b", "c", "d", "e", "f", "g", "h", "i", "j", "k", "l",
          "m", "n", "o", "p", "q", "r", "s", "t", "u", "v", "w", "x", "y",
          "z">>
RankOf == [c \in Range(Ascii) |-> CHOOSE i \in 1..Len(Ascii) : Ascii[i] = c]
Rank(c) == RankOf[c]
IsUpper(c) == Rank(c) >= Rank("A") /\ Rank(c) <= Rank("Z")
IsLower(c) == Rank(c) >= Rank("a") /\ Rank(c) <= Rank("z")

\* ---- str::to_ascii_lowercase / str::to_ascii_uppercase
to_ascii_lowercase(s) ==
    [i \in 1..Len(s) |-> IF IsUpper(s[i]) THEN Ascii[Rank(s[i]) + (Rank("a") - Rank("A"))] ELSE s[i]]
to_ascii_uppercase(s) ==
    [i \in 1..Len(s) |-> IF IsLower(s[i]) THEN Ascii[Rank(s[i]) - (Rank("a") - Rank("A"))] ELSE s[i]]

\* ---- str::contains
contains(s, sub) ==
    \E i \in 1..((Len(s) - Len(sub)) + 1) : SubSeq(s, i, (i + Len(sub)) - 1) = sub

\* ---- `<` of str: lexicographic by bytes
RECURSIVE StrLess(_, _)
StrLess(a, b) ==
    IF b = <<>> THEN FALSE
    ELSE IF a = <<>> THEN TRUE
    ELSE IF Head(a) = Head(b) THEN StrLess(Tail(a), Tail(b))
    ELSE Rank(Head(a)) < Rank(Head(b))

\* ---- BTreeSet / BTreeMap into_iter: the elements in ascending order
RECURSIVE Sorted(_)
Sorted(set) ==
    IF set = {} THEN <<>>
    ELSE LET least == CHOOSE x \in set : \A y \in set \ {x} : StrLess(x, y)
         IN  <<least>> \o Sorted(set \ {least})

\* ---- [String]::join(", ")
RECURSIVE join(_)
join(v) ==
    IF v = <<>> THEN <<>>
    ELSE IF Len(v) = 1 THEN v[1]
    ELSE v[1] \o <<",", " ">> \o join(Tail(v))

\* ---- map_platform (src/src/ena.rs)
PromethION == <<"P", "r", "o", "m", "e", "t", "h", "I", "O", "N">>
GridION == <<"G", "r", "i", "d", "I", "O", "N">>
MinION == <<"M", "i", "n", "I", "O", "N">>
OxfordNanopore == <<"O", "x", "f", "o", "r", "d", " ", "N", "a", "n", "o", "p", "o", "r", "e">>
map_platform(model) ==
    IF model = None THEN OxfordNanopore
    ELSE LET m == to_ascii_lowercase(model[1])
         IN  IF contains(m, <<"p", "r", "o", "m", "e", "t", "h">>) THEN PromethION
             ELSE IF contains(m, <<"g", "r", "i", "d", "i", "o", "n">>) THEN GridION
             ELSE IF contains(m, <<"m", "i", "n", "i", "o", "n">>) \/ contains(m, <<"f", "l", "o", "n", "g", "l", "e">>) THEN MinION
             ELSE IF contains(m, <<"o", "n", "t">>) THEN OxfordNanopore
             ELSE OxfordNanopore

\* ---- map_strategy (src/src/ena.rs)
TranscriptomeStrategies ==
    {<<"R", "N", "A", "-", "S", "E", "Q">>,
     <<"T", "R", "A", "N", "S", "C", "R", "I", "P", "T", "O", "M", "E", " ", "S", "E", "Q", "U", "E", "N", "C", "I", "N", "G">>,
     <<"M", "R", "N", "A", "-", "S", "E", "Q">>,
     <<"C", "D", "N", "A">>}
MetagenomeStrategies ==
    {<<"M", "E", "T", "A", "G", "E", "N", "O", "M", "E">>,
     <<"M", "E", "T", "A", "T", "R", "A", "N", "S", "C", "R", "I", "P", "T", "O", "M", "E">>}
GenomeStrategies ==
    {<<"W", "G", "S">>, <<"W", "G", "A">>, <<"H", "I", "-", "C">>,
     <<"A", "M", "P", "L", "I", "C", "O", "N">>,
     <<"A", "M", "P", "L", "I", "C", "O", "N", " ", "S", "E", "Q", "U", "E", "N", "C", "I", "N", "G">>}
map_strategy(s) ==
    LET other == to_ascii_uppercase(s)
    IN  IF other \in TranscriptomeStrategies THEN <<"t", "r", "a", "n", "s", "c", "r", "i", "p", "t", "o", "m", "e">>
        ELSE IF other \in MetagenomeStrategies THEN <<"m", "e", "t", "a", "g", "e", "n", "o", "m", "e">>
        ELSE IF other \in GenomeStrategies THEN <<"g", "e", "n", "o", "m", "e">>
        ELSE IF other = <<"O", "T", "H", "E", "R">> THEN <<"o", "t", "h", "e", "r">>
        ELSE to_ascii_lowercase(other)

\* ---- the totals are beyond the integers of the checker: a u64 or u128 value
\* is the sequence of its decimal digits, least significant first, without
\* leading zeros (zero is the empty sequence)
Zero == <<>>

\* ---- Agg::default()
AggDefault ==
    [plats |-> {}, types |-> {}, species |-> {}, samples |-> {},
     bases |-> Zero, title |-> <<>>, release |-> <<>>]

\* ---- if let Some(x) = .. { if !x.is_empty() { set.insert(x) } }
insert_nonempty_first_only(set, opt) ==
    IF opt # None /\ opt[1] # <<>> /\ set = {} THEN {opt[1]} ELSE set
insert_nonempty(set, opt) ==
    IF opt # None /\ opt[1] # <<>> THEN set \cup {opt[1]} ELSE set

\* ---- if a.release.is_empty() || fp < a.release.as_str() { a.release = fp }
update_release(release, first_public) ==
    IF first_public # None /\ (release = <<>> \/ StrLess(first_public[1], release))
    THEN first_public[1]
    ELSE release

\* ---- if !t.is_empty() && a.title.is_empty() { a.title = t }
update_title(title, study_title) ==
    IF study_title # None /\ study_title[1] # <<>> /\ title = <<>>
    THEN study_title[1]
    ELSE title

RECURSIVE Normal(_)
Normal(n) == IF n # <<>> /\ n[Len(n)] = 0 THEN Normal(SubSeq(n, 1, Len(n) - 1)) ELSE n

RECURSIVE BigAdd(_, _, _)
BigAdd(a, b, carry) ==
    IF a = <<>> /\ b = <<>> THEN (IF carry = 0 THEN <<>> ELSE <<carry>>)
    ELSE LET x == IF a = <<>> THEN 0 ELSE Head(a)
             y == IF b = <<>> THEN 0 ELSE Head(b)
             sum == x + y + carry
         IN  <<sum % 10>> \o BigAdd(IF a = <<>> THEN a ELSE Tail(a),
                                     IF b = <<>> THEN b ELSE Tail(b), sum \div 10)

RECURSIVE BigLess(_, _)
BigLess(a, b) ==
    IF Len(a) # Len(b) THEN Len(a) < Len(b)
    ELSE IF a = <<>> THEN FALSE
    ELSE IF a[Len(a)] # b[Len(b)] THEN a[Len(a)] < b[Len(b)]
    ELSE BigLess(SubSeq(a, 1, Len(a) - 1), SubSeq(b, 1, Len(b) - 1))

\* the value of a text of decimal digits
FromDigits(text) == Normal([i \in 1..Len(text) |-> DigitValue[text[(Len(text) + 1) - i]]])

\* ---- u64::MAX and u128::MAX
U64Max == FromDigits(<<"1", "8", "4", "4", "6", "7", "4", "4", "0", "7",
                       "3", "7", "0", "9", "5", "5", "1", "6", "1", "5">>)
U128Max ==
    FromDigits(<<"3", "4", "0", "2", "8", "2", "3", "6", "6", "9", "2", "0", "9", "3", "8", "4", "6", "3", "4", "6", "3",
               "3", "7", "4", "6", "0", "7", "4", "3", "1", "7", "6", "8", "2", "1", "1", "4", "5", "5">>)

\* ---- bc.parse::<u64>(): an optional "+", then one or more ASCII digits whose
\* value is at most u64::MAX
parse_base_count(bc) ==
    LET digits == IF bc # <<>> /\ Head(bc) = "+" THEN Tail(bc) ELSE bc
    IN  IF digits = <<>> \/ \E i \in 1..Len(digits) : digits[i] \notin DOMAIN DigitValue
        THEN None
        ELSE IF BigLess(U64Max, FromDigits(digits)) THEN None
        ELSE Some(FromDigits(digits))

\* ---- u128::saturating_add
saturating_add_u64(a, b) ==
    IF BigLess(U64Max, BigAdd(a, b, 0)) THEN U64Max ELSE BigAdd(a, b, 0)
saturating_add(a, b) ==
    IF BigLess(U128Max, BigAdd(a, b, 0)) THEN U128Max ELSE BigAdd(a, b, 0)

\* ---- a.bases.saturating_add(v as u128), v the base_count that parses as u64
add_bases(bases, base_count) ==
    IF base_count # None /\ parse_base_count(base_count[1]) # None
    THEN saturating_add(bases, parse_base_count(base_count[1])[1])
    ELSE bases

\* ---- the body of `for r in &runs`
fold_row(m, r) ==
    LET acc == r.study_accession
        a == IF acc \in DOMAIN m THEN m[acc] ELSE AggDefault
        b == [plats |-> a.plats \cup {map_platform(r.instrument_model)},
              types |-> IF r.library_strategy # None
                        THEN a.types \cup {map_strategy(r.library_strategy[1])}
                        ELSE a.types,
              species |-> insert_nonempty(a.species, r.scientific_name),
              samples |-> insert_nonempty(a.samples, r.sample_accession),
              bases |-> add_bases(a.bases, r.base_count),
              title |-> update_title(a.title, r.study_title),
              release |-> update_release(a.release, r.first_public)]
    IN  [k \in DOMAIN m \cup {acc} |-> IF k = acc THEN b ELSE m[k]]

\* ---- the whole of `for r in &runs`, from the empty map
RECURSIVE fold_rows(_, _)
fold_rows(m, rs) ==
    IF rs = <<>> THEN m ELSE fold_rows(fold_row(m, Head(rs)), Tail(rs))
reduce(rs) == fold_rows(<<>>, rs)

\* ---- if v.len() > 5 { v.truncate(5) }
SpeciesCap == 5
truncate_keeps_all(v) == v
truncate(v) == IF Len(v) > SpeciesCap THEN SubSeq(v, 1, SpeciesCap) ELSE v

\* ---- ((a.bases as f64 / 1e9) * 10.0).round(), the gigabases in tenths:
\* the digits above the eighth, one more when the eighth digit is 5 or more
TenthOfGigabaseDigits == 8
gigabases_tenths(bases) ==
    IF Len(bases) < TenthOfGigabaseDigits THEN Zero
    ELSE LET whole == SubSeq(bases, TenthOfGigabaseDigits + 1, Len(bases))
         IN  IF bases[TenthOfGigabaseDigits] >= 5 THEN BigAdd(whole, <<1>>, 0) ELSE whole

\* ---- Row { .. } of one study
make_row(acc, a) ==
    [acc |-> acc,
     release |-> a.release,
     platform |-> join(Sorted(a.plats)),
     seq_type |-> join(Sorted(a.types)),
     species |-> join(truncate(Sorted(a.species))),
     biosamples |-> Cardinality(a.samples),
     gigabases_num |-> gigabases_tenths(a.bases),
     title |-> a.title]

\* ---- the rows a fetch may have returned
AtU64Max ==
    Some(<<"1", "8", "4", "4", "6", "7", "4", "4", "0", "7", "3", "7", "0", "9", "5", "5", "1", "6", "1", "5">>)
AboveU64Max ==
    Some(<<"1", "8", "4", "4", "6", "7", "4", "4", "0", "7", "3", "7", "0", "9", "5", "5", "1", "6", "1", "6">>)

RowA ==
    [study_accession |-> <<"P", "R", "J", "1">>, run_accession |-> Some(<<"R", "1">>),
     sample_accession |-> Some(<<"S", "1">>), base_count |-> AtU64Max,
     instrument_model |-> Some(<<"P", "r", "o", "m", "e", "t", "h", "I", "O", "N">>),
     library_strategy |-> Some(<<"W", "G", "S">>),
     scientific_name |-> Some(<<"H", "o", "m", "o">>),
     first_public |-> Some(JanuaryText(5)),
     study_title |-> Some(<<"G", "u", "t">>)]

RowB ==
    [study_accession |-> <<"P", "R", "J", "1">>, run_accession |-> None,
     sample_accession |-> Some(<<>>), base_count |-> Some(<<>>),
     instrument_model |-> None,
     library_strategy |-> None,
     scientific_name |-> Some(<<>>),
     first_public |-> Some(<<>>),
     study_title |-> Some(<<>>)]

RowC ==
    [study_accession |-> <<"P", "R", "J", "1">>, run_accession |-> Some(<<"R", "3">>),
     sample_accession |-> Some(<<"S", "2">>), base_count |-> Some(<<"+", "7">>),
     instrument_model |-> Some(<<"G", "r", "i", "d", "I", "O", "N">>),
     library_strategy |-> Some(<<"R", "N", "A", "-", "S", "e", "q">>),
     scientific_name |-> Some(<<"M", "u", "s">>),
     first_public |-> Some(JanuaryText(20)),
     study_title |-> Some(<<"S", "o", "i", "l">>)]

RowD ==
    [study_accession |-> <<"P", "R", "J", "1">>, run_accession |-> Some(<<"R", "4">>),
     sample_accession |-> None, base_count |-> None,
     instrument_model |-> Some(<<"m", "i", "n", "i", "o", "n">>),
     library_strategy |-> Some(<<"C", "h", "I", "P">>),
     scientific_name |-> None,
     first_public |-> None,
     study_title |-> None]

RowE ==
    [study_accession |-> <<"P", "R", "J", "2">>, run_accession |-> Some(<<"R", "5">>),
     sample_accession |-> Some(<<"S", "1">>), base_count |-> Some(<<"x", "1">>),
     instrument_model |-> Some(<<"F", "l", "o", "n", "g", "l", "e">>),
     library_strategy |-> Some(<<"O", "T", "H", "E", "R">>),
     scientific_name |-> Some(<<"H", "o", "m", "o">>),
     first_public |-> Some(JanuaryText(20)),
     study_title |-> Some(<<"G", "u", "t">>)]

RowF ==
    [study_accession |-> <<"P", "R", "J", "2">>, run_accession |-> Some(<<"R", "6">>),
     sample_accession |-> Some(<<"S", "2">>), base_count |-> Some(<<"1", "5", "0", "0", "0", "0", "0", "0", "0">>),
     instrument_model |-> Some(<<"O", "N", "T">>),
     library_strategy |-> Some(<<"m", "e", "t", "a", "g", "e", "n", "o", "m", "e">>),
     scientific_name |-> Some(<<"a", "p", "i", "s">>),
     first_public |-> Some(JanuaryText(5)),
     study_title |-> Some(<<"S", "o", "i", "l">>)]

RowG ==
    [study_accession |-> <<"P", "R", "J", "1">>, run_accession |-> Some(<<"R", "7">>),
     sample_accession |-> Some(<<"S", "1">>), base_count |-> AboveU64Max,
     instrument_model |-> Some(<<"M", "i", "n", "I", "O", "N", " ", "M", "k", "1", "B">>),
     library_strategy |-> Some(<<"A", "m", "p", "l", "i", "c", "o", "n", " ", "s", "e", "q", "u", "e", "n", "c", "i", "n", "g">>),
     scientific_name |-> Some(<<"Z", "e", "a">>),
     first_public |-> Some(JanuaryText(5)),
     study_title |-> Some(<<"G", "u", "t">>)]

RowPool == {RowA, RowB, RowC, RowD, RowE, RowF, RowG}

\* rows of one study that differ in the species alone
SpeciesNames ==
    {<<"Z", "e", "a">>, <<"M", "u", "s">>, <<"a", "p", "i", "s">>, <<"H", "o", "m", "o">>,
     <<"B", "o", "s">>, <<"S", "u", "s">>, <<"O", "v", "i", "s">>}
SpeciesRow(name) == [RowD EXCEPT !.scientific_name = Some(name)]
SpeciesRuns ==
    {[i \in 1..(SpeciesCap + 1) |-> SpeciesRow(f[i])] :
        f \in {g \in [1..(SpeciesCap + 1) -> SpeciesNames] :
                 \A i, j \in 1..(SpeciesCap + 1) : g[i] = g[j] => i = j}}

RunInputs == SeqsUpTo(RowPool, MaxRuns) \cup SpeciesRuns

\* ---- if runs.is_empty() { println!(..); return Ok(()) }
EmptyReturn ==
    /\ pc = "fold"
    /\ runs = <<>>
    /\ pc' = "exit"
    /\ UNCHANGED <<runs, idx, by_study, table>>
    /\ UNCHANGED <<mode, first_day, last_day, start, out, dedup, reqlog, bodies, result>>
    /\ UNCHANGED rvars

\* ---- one iteration of `for r in &runs`
FoldRow ==
    /\ pc = "fold"
    /\ idx < Len(runs)
    /\ by_study' = fold_row(by_study, runs[idx + 1])
    /\ idx' = idx + 1
    /\ pc' = IF idx + 1 = Len(runs) THEN "rows" ELSE "fold"
    /\ UNCHANGED <<runs, table>>
    /\ UNCHANGED <<mode, first_day, last_day, start, out, dedup, reqlog, bodies, result>>
    /\ UNCHANGED rvars

\* ---- one iteration of `for (acc, a) in by_study.into_iter()`
PushRow ==
    /\ pc = "rows"
    /\ DOMAIN by_study # {}
    /\ LET acc == Sorted(DOMAIN by_study)[1]
           rest == DOMAIN by_study \ {acc}
       IN  /\ table' = Append(table, make_row(acc, by_study[acc]))
           /\ by_study' = [k \in rest |-> by_study[k]]
           /\ pc' = IF rest = {} THEN "print" ELSE "rows"
    /\ UNCHANGED <<runs, idx>>
    /\ UNCHANGED <<mode, first_day, last_day, start, out, dedup, reqlog, bodies, result>>
    /\ UNCHANGED rvars

InitReduce ==
    /\ runs \in RunInputs
    /\ idx = 0
    /\ by_study = <<>>
    /\ table = <<>>
    /\ pc = "fold"
    /\ mode = "reduce"
    /\ first_day = 0
    /\ last_day = 0
    /\ start = 0
    /\ out = <<>>
    /\ dedup = {}
    /\ reqlog = <<>>
    /\ bodies = <<>>
    /\ result = NoValue
    /\ rpc = "idle"
    /\ attempt = 0
    /\ delay = InitialDelayMs
    /\ sleeps = <<>>
    /\ hist = <<>>
    /\ ret = NoValue

NextReduce ==
    \/ EmptyReturn
    \/ FoldRow
    \/ PushRow

SpecReduce == InitReduce /\ [][NextReduce]_vars

(***************************************************************************)
(* Properties of request_with_retries, checked under SpecRetry.            *)
(***************************************************************************)
RetryableStatuses == {429, 500, 502, 503, 504}
Is2xx(o) == IsResponse(o) /\ o.status \in 200..299
IsRetryableResponse(o) == IsResponse(o) /\ o.status \in RetryableStatuses
Last(s) == s[Len(s)]

RECURSIVE Pow2(_)
Pow2(n) == IF n = 0 THEN 1 ELSE 2 * Pow2(n - 1)

\* The header values that are a number of seconds, read off the header set.
HintSecs(o) ==
    IF IsResponse(o) /\ o.retry_after = Some(<<"3">>) THEN Some(3) ELSE None

\* C1: whatever the outcomes, at most 5 GET attempts are issued, the call has
\* returned (a response or an error) once the 5th attempt is made, and the
\* unreachable!() after the loop is never reached.
C1_AtMostFiveAttempts ==
    /\ Len(hist) <= 5
    /\ rpc \in {"send", "ret"}
    /\ rpc # "unreachable"
    /\ Len(hist) = 5 => rpc = "ret" /\ Returned(ret)
    /\ rpc = "ret" <=> Returned(ret)

C1_Witness ==
    /\ Len(hist) = 5
    /\ rpc = "ret"
    /\ \A i \in 1..4 : hist[i] = TransportError \/ IsRetryableResponse(hist[i])

\* C2: when attempts 1..k-1 all got a retryable status and attempt k got a 2xx
\* status, the call has returned the response of attempt k as Ok, has slept
\* exactly k-1 times and has issued no attempt after k.
C2_SuccessAfterRetryables ==
    \A k \in 1..Len(hist) :
        (/\ \A i \in 1..(k - 1) : IsRetryableResponse(hist[i])
         /\ Is2xx(hist[k]))
        => /\ Len(hist) = k
           /\ rpc = "ret"
           /\ ret = Ok(hist[k])
           /\ Len(sleeps) = k - 1

C2_Witness ==
    /\ Len(hist) = 5
    /\ \A i \in 1..4 : IsResponse(hist[i]) /\ hist[i].status = 503
    /\ hist[5].status = 200
    /\ ret = Ok(hist[5])
    /\ Len(sleeps) = 4

\* C3: when all 5 attempts got a retryable status, the call has returned the
\* 5th response itself as an Ok value, after exactly 4 sleeps (none after the
\* 5th attempt).
C3_ExhaustedRetryableIsOk ==
    (Len(hist) >= 5 /\ \A i \in 1..5 : IsRetryableResponse(hist[i]))
    => /\ Len(hist) = 5
       /\ rpc = "ret"
       /\ ret = Ok(hist[5])
       /\ Len(sleeps) = 4

C3_Witness ==
    /\ Len(hist) = 5
    /\ \A i \in 1..5 : IsRetryableResponse(hist[i])
    /\ ret.ok
    /\ ret.val.status = 502

\* C4: a response whose status is neither 2xx nor retryable ends the call at
\* once: it is the last attempt, it is the value returned, and the only sleeps
\* are the ones before it (none when it is the first attempt).
C4_NonRetryableReturnsAtOnce ==
    \A i \in 1..Len(hist) :
        (IsResponse(hist[i]) /\ ~Is2xx(hist[i]) /\ ~IsRetryableResponse(hist[i]))
        => /\ Len(hist) = i
           /\ rpc = "ret"
           /\ ret = Ok(hist[i])
           /\ Len(sleeps) = i - 1
           /\ (i = 1 => sleeps = <<>>)

C4_Witness ==
    /\ Len(hist) = 1
    /\ IsResponse(hist[1])
    /\ hist[1].status = 404
    /\ ret = Ok(hist[1])
    /\ sleeps = <<>>

\* C5: a transport failure on attempt k < 5 is followed by a sleep and by the
\* next attempt; a transport failure on the 5th attempt is returned as an error,
\* never as a response; a 2xx attempt after a transport failure is a success.
C5_TransportFailureRetried ==
    /\ \A k \in 1..Len(hist) :
        hist[k] = TransportError =>
            IF k < 5
            THEN /\ Len(sleeps) >= k
                 /\ Len(hist) > k \/ (rpc = "send" /\ attempt = k)
            ELSE /\ rpc = "ret"
                 /\ ~ret.ok
                 /\ Len(sleeps) = 4
    /\ (rpc = "ret" /\ ~ret.ok) => (Len(hist) = 5 /\ hist[5] = TransportError)
    /\ (hist # <<>> /\ Is2xx(Last(hist))) => (rpc = "ret" /\ ret = Ok(Last(hist)))

C5_Witness ==
    /\ Len(hist) >= 2
    /\ \E k \in 1..(Len(hist) - 1) : hist[k] = TransportError
    /\ Is2xx(Last(hist))
    /\ ret = Ok(Last(hist))

\* C6 as claimed: the sleep before the k-th retry is the Retry-After seconds
\* when attempt k carried a parseable hint, and 400ms * 2^(k-1) otherwise.
C6_DelayDoublesEveryRetry ==
    \A k \in 1..Len(sleeps) :
        sleeps[k] = IF HintSecs(hist[k]) # None
                    THEN HintSecs(hist[k])[1] * 1000
                    ELSE 400 * Pow2(k - 1)

\* C6 as amended: a hinted retry sleeps the hinted seconds and leaves the
\* delay alone; an unhinted retry or a transport failure sleeps
\* 400ms * 2^j, j being the number of earlier sleeps that had no hint.
Unhinted(k) == {i \in 1..k : HintSecs(hist[i]) = None}

C6_DelayDoublesEveryUnhintedRetry ==
    /\ Len(sleeps) <= 4
    /\ \A k \in 1..Len(sleeps) :
        sleeps[k] = IF HintSecs(hist[k]) # None
                    THEN HintSecs(hist[k])[1] * 1000
                    ELSE 400 * Pow2(Cardinality(Unhinted(k - 1)))

C6_Witness ==
    /\ Len(sleeps) = 4
    /\ HintSecs(hist[1]) # None
    /\ hist[2] = TransportError
    /\ IsResponse(hist[3]) /\ hist[3].retry_after = Some(<<"s", "o", "o", "n">>)
    /\ IsResponse(hist[4]) /\ hist[4].retry_after = None
    /\ sleeps = <<3000, 400, 800, 1600>>

(***************************************************************************)
(* Properties of the windowed fetch, checked under Spec.                   *)
(***************************************************************************)
IsWindow(q) == q.kind = "window"
Windows == SelectSeq(reqlog, IsWindow)

\* the window loop has been entered: always in fetch_runs_between, after a
\* non-2xx full-range response in fetch_runs_since
LoopEntered ==
    /\ pc \in {"window", "done"}
    /\ \E i \in 1..Len(reqlog) : reqlog[i].kind = "handshake"
    /\ mode = "since" =>
           \E i \in 1..Len(reqlog) : reqlog[i].kind = "full" /\ reqlog[i].outcome = "status"

WindowedOk == LoopEntered /\ pc = "done" /\ result.ok

RECURSIVE Flatten(_)
Flatten(ss) == IF ss = <<>> THEN <<>> ELSE Head(ss) \o Flatten(Tail(ss))

Count(rows, r) == Cardinality({i \in 1..Len(rows) : rows[i] = r})
CountAccession(rows, acc) ==
    Cardinality({i \in 1..Len(rows) : rows[i].run_accession = Some(acc)})
Accessions == {"SRR000001", "SRR000002"}

\* C7: the rows a windowed fetch keeps, and the rows it returns, hold at most
\* one row of any run accession, in however many windows or positions of a
\* window the accession was received.
C7_OneRowPerAccession ==
    /\ LoopEntered => \A acc \in Accessions : CountAccession(out, acc) <= 1
    /\ WindowedOk =>
           \A acc \in Accessions :
               CountAccession(result.val, acc) =
                   IF CountAccession(Flatten(bodies), acc) > 0 THEN 1 ELSE 0

C7_Witness ==
    /\ WindowedOk
    /\ Len(bodies) = 2
    /\ CountAccession(bodies[1], "SRR000001") = 2
    /\ CountAccession(bodies[2], "SRR000001") = 1
    /\ CountAccession(result.val, "SRR000001") = 1

\* C8: a windowed fetch that returns Ok returns every row without a run
\* accession that any window delivered, as often as it was delivered, and the
\* dedup set holds received accessions only.
C8_UnnamedRowsPassThrough ==
    /\ WindowedOk =>
           \A r \in RunRecords :
               r.run_accession = None =>
                   Count(result.val, r) = Count(Flatten(bodies), r)
    /\ LoopEntered =>
           dedup = {acc \in Accessions : CountAccession(Flatten(bodies), acc) > 0}

C8_Witness ==
    /\ WindowedOk
    /\ Len(bodies) = 2
    /\ \E r \in RunRecords :
        /\ r.run_accession = None
        /\ bodies[1] = <<r, r>>
        /\ Count(bodies[2], r) = 1
        /\ Count(result.val, r) = 3

\* C9: a window that ends in a transport error, a non-2xx status or an
\* undecodable body is the last request issued and makes the fetch return an
\* error (which carries no rows); Ok is returned only when the windows
\* requested cover the whole range and each returned 2xx and decoded.
Failed(w) == w.outcome \in {"transport", "status", "decode"}

C9_AllOrNothing ==
    /\ \A i \in 1..Len(Windows) :
        /\ Failed(Windows[i]) =>
               /\ i = Len(Windows)
               /\ reqlog[Len(reqlog)] = Windows[i]
               /\ pc = "done"
               /\ ~result.ok
               /\ "val" \notin DOMAIN result
        /\ Windows[i].outcome = "pending" => (i = Len(Windows) /\ pc = "window")
    /\ WindowedOk =>
           /\ \A i \in 1..Len(Windows) : Windows[i].outcome = "rows"
           /\ Len(bodies) = Len(Windows)
           /\ IF last_day < first_day THEN Windows = <<>>
              ELSE /\ Windows # <<>>
                   /\ Windows[1].s = first_day
                   /\ Windows[Len(Windows)].e = last_day
                   /\ \A i \in 1..(Len(Windows) - 1) : Windows[i + 1].s = Windows[i].e + 1

C9_Witness ==
    /\ pc = "done"
    /\ Len(Windows) = 2
    /\ Windows[1].outcome = "rows"
    /\ Windows[2].outcome = "transport"
    /\ out # <<>>
    /\ ~result.ok

\* C10 as claimed: when the last window failed by a non-2xx status or by a
\* malformed body, the error returned carries that window's start and end.
NamesWindow(e, w) == "window" \in DOMAIN e /\ e.window = <<w.s, w.e>>

C10_EveryWindowFailureNamesWindow ==
    (pc = "done" /\ Windows # <<>> /\ Last(Windows).outcome \in {"status", "decode"})
    => (~result.ok /\ NamesWindow(result.err, Last(Windows)))

\* C10 as amended: a window that failed by a non-2xx status gives an error
\* with that status and that window's start and end; a window that failed by
\* a malformed body gives a decode error that says only which fetch it was in.
C10_StatusFailureNamesWindow ==
    (pc = "done" /\ Windows # <<>>) =>
        /\ Last(Windows).outcome = "status" =>
               /\ ~result.ok
               /\ NamesWindow(result.err, Last(Windows))
               /\ result.err.status \notin 200..299
        /\ Last(Windows).outcome = "decode" =>
               /\ ~result.ok
               /\ "window" \notin DOMAIN result.err
               /\ result.err.context =
                      (IF mode = "since" THEN "windowed" ELSE "released window")

C10_Witness ==
    /\ pc = "done"
    /\ Len(Windows) = 2
    /\ Windows[2].outcome = "status"
    /\ Windows[2].s > first_day
    /\ result.err.window = <<Windows[2].s, Windows[2].e>>
    /\ result.err.status = 503

(***************************************************************************)
(* Properties of the full-range request, the windows and the handshake,    *)
(* checked under Spec.                                                     *)
(***************************************************************************)
IsFull(q) == q.kind = "full"
Full == SelectSeq(reqlog, IsFull)
FullOutcome == IF Full = <<>> THEN "none" ELSE Full[1].outcome

\* the fetch went on to the window loop and no error of the full-range request
\* came back: an error returned is the error of a window
FellBack ==
    /\ pc \in {"window", "done"}
    /\ first_day <= last_day => (Windows # <<>> /\ Windows[1].s = first_day)
    /\ first_day > last_day => (pc = "done" /\ result = Ok(<<>>))
    /\ (pc = "done" /\ ~result.ok) => (Windows # <<>> /\ Failed(Last(Windows)))

\* C11 as claimed: every failure of the full-range request of fetch_runs_since
\* (non-2xx status, transport error, undecodable body) falls back to the
\* windows and is not returned to the caller.
C11_EveryFullFailureFallsBack ==
    FullOutcome \in {"status", "transport", "decode"} => FellBack

\* C11 as amended: a non-2xx final status of the full-range request falls
\* back to the windows; a transport error after the retries and an undecodable
\* 2xx body are returned to the caller as errors, and no window is requested.
C11_OnlyStatusFailureFallsBack ==
    /\ FullOutcome = "status" => FellBack
    /\ FullOutcome = "transport" =>
           /\ pc = "done"
           /\ result = Err([kind |-> "request error"])
           /\ Windows = <<>>
    /\ FullOutcome = "decode" =>
           /\ pc = "done"
           /\ result = Err([kind |-> "decode read_run json", context |-> ""])
           /\ Windows = <<>>

C11_Witness ==
    /\ FullOutcome = "transport"
    /\ pc = "done"
    /\ ~result.ok
    /\ first_day < last_day

\* C12: the step that consumes a full-range response of any non-2xx status
\* (a 4xx of the first attempt too) returns no error: it issues the request of
\* the window that starts at since, or returns Ok with no rows when since is
\* after today.
C12_NonSuccessFullFallsBack ==
    [][(pc = "full" /\ rpc = "ret" /\ ret.ok /\ ret.val.status \notin 200..299)
       => IF first_day <= last_day
          THEN /\ pc' = "window"
               /\ rpc' = "send"
               /\ result' = result
               /\ reqlog' = Append(Closed(reqlog, "status"),
                                   [kind |-> "window", s |-> first_day,
                                    e |-> Min(first_day + 13, last_day),
                                    outcome |-> "pending"])
          ELSE /\ pc' = "done"
               /\ result' = Ok(<<>>)
               /\ reqlog' = Closed(reqlog, "status")]_vars

C12_Witness ==
    /\ mode = "since"
    /\ FullOutcome = "status"
    /\ pc = "window"
    /\ rpc = "send"
    /\ hist = <<>>
    /\ Len(Windows) = 1
    /\ Windows[1].s = first_day
    /\ Windows[1].outcome = "pending"
    /\ first_day < last_day

\* C13: when the full-range request is 2xx and decodes, the fetch returns the
\* decoded rows as received (same rows, same order, duplicates kept) and no
\* window is requested.
C13_FullRowsReturnedAsReceived ==
    FullOutcome = "rows" =>
        /\ pc = "done"
        /\ Len(bodies) = 1
        /\ result = Ok(bodies[1])
        /\ Windows = <<>>
        /\ Len(reqlog) = 3

C13_Witness ==
    /\ FullOutcome = "rows"
    /\ pc = "done"
    /\ Len(result.val) = 2
    /\ result.val[1].run_accession = Some("SRR000001")
    /\ result.val[2].run_accession = Some("SRR000001")
    /\ result.val[1] # result.val[2]

\* C15: a windowed fetch over N >= 1 days that returns Ok has requested
\* exactly ceil(N / 14) windows; 14 days are the one window [start, start+13],
\* 15 days are two windows.
Days == last_day - first_day + 1

C15_WindowCount ==
    (WindowedOk /\ Days >= 1) =>
        /\ Len(Windows) = (Days + 13) \div 14
        /\ Days = 14 => (/\ Len(Windows) = 1
                         /\ Windows[1].s = first_day
                         /\ Windows[1].e = first_day + 13)
        /\ Days = 15 => Len(Windows) = 2

C15_Witness ==
    /\ WindowedOk
    /\ Days = 15
    /\ Len(Windows) = 2
    /\ Windows[1].e = first_day + 13

\* C16: the windows of a windowed fetch that returns Ok partition the range:
\* each has start <= end and at most 14 days and lies inside the range, the
\* first starts at the range start, each next one starts the day after the
\* previous end, the last ends at the range end, and every day of the range is
\* in exactly one window.
C16_WindowsPartitionRange ==
    WindowedOk =>
        /\ \A i \in 1..Len(Windows) :
            /\ Windows[i].s <= Windows[i].e
            /\ Windows[i].e - Windows[i].s + 1 <= 14
            /\ first_day <= Windows[i].s
            /\ Windows[i].e <= last_day
            /\ i > 1 => Windows[i].s = Windows[i - 1].e + 1
        /\ Windows # <<>> => (Windows[1].s = first_day /\ Last(Windows).e = last_day)
        /\ \A day \in first_day..last_day :
            Cardinality({i \in 1..Len(Windows) :
                            Windows[i].s <= day /\ day <= Windows[i].e}) = 1
        /\ Days < 1 => Windows = <<>>

C16_Witness ==
    /\ WindowedOk
    /\ mode = "since"
    /\ Len(Windows) = 2
    /\ Windows[2].s = Windows[1].e + 1
    /\ Windows[2].e = last_day
    /\ Windows[2].s = Windows[2].e

\* C17: whatever the two probes of the handshake returned, the fetch goes on
\* as it does after a handshake that succeeded: after the ping the minimal
\* search is requested, after the minimal search the full-range request
\* (fetch_runs_since) or the first window (fetch_runs_between); and an error
\* the fetch returns is the error of a full-range or window request (or of
\* building the client), never of a probe.
AfterHandshake ==
    IF mode = "since"
    THEN /\ pc' = "full"
         /\ rpc' = "send"
         /\ result' = result
         /\ reqlog' = Append(reqlog, [kind |-> "full", s |-> first_day,
                                      outcome |-> "pending"])
    ELSE IF first_day <= last_day
    THEN /\ pc' = "window"
         /\ rpc' = "send"
         /\ result' = result
         /\ reqlog' = Append(reqlog, [kind |-> "window", s |-> first_day,
                                      e |-> Min(first_day + 13, last_day),
                                      outcome |-> "pending"])
    ELSE /\ pc' = "done"
         /\ result' = Ok(<<>>)
         /\ reqlog' = reqlog

C17_HandshakeNeverAborts ==
    /\ []((pc = "done" /\ ~result.ok) =>
             \/ (result.err = [kind |-> "client"] /\ reqlog = <<>>)
             \/ /\ Len(reqlog) >= 3
                /\ Last(reqlog).kind \in {"full", "window"}
                /\ Failed(Last(reqlog)))
    /\ [][(pc = "ping" /\ rpc = "ret")
          => /\ pc' = "handshake"
             /\ rpc' = "send"
             /\ result' = result
             /\ reqlog' = Append(reqlog, [kind |-> "handshake"])]_vars
    /\ [][(pc = "handshake" /\ rpc = "ret") => AfterHandshake]_vars

C17_Witness ==
    /\ pc = "handshake"
    /\ rpc = "ret"
    /\ ~ret.ok
    /\ Len(hist) = 5
    /\ reqlog = <<[kind |-> "ping"], [kind |-> "handshake"]>>

\* the requests that are awaiting their response
Pending == {i \in 1..Len(reqlog) : reqlog[i].kind \in {"full", "window"} /\ reqlog[i].outcome = "pending"}

\* the rows of `all` that are kept: a row without a run accession, and the
\* first row of every run accession, in the order of `all`
KeptAt(all) ==
    {i \in 1..Len(all) :
        \/ all[i].run_accession = None
        \/ \A j \in 1..(i - 1) : all[j].run_accession # all[i].run_accession}
NthOf(idxs, n) == CHOOSE i \in idxs : Cardinality({j \in idxs : j <= i}) = n
FirstOccurrences(all) ==
    [n \in 1..Cardinality(KeptAt(all)) |-> all[NthOf(KeptAt(all), n)]]

\* C22: the window requests are sequential and ordered: at most one request is
\* awaiting its response, and it is the last one issued; the windows are
\* requested in increasing order of their start dates; and when a further
\* window is requested, every window before it has answered 2xx with a body
\* that decoded, and the rows of all of them are folded into the rows kept.
C22_WindowsSequentialAndOrdered ==
    /\ Cardinality(Pending) <= 1
    /\ Pending \subseteq {Len(reqlog)}
    /\ Pending # {} => (rpc \in {"send", "ret"} /\ pc \in {"full", "window"})
    /\ \A i \in 1..(Len(Windows) - 1) :
        /\ Windows[i].s < Windows[i + 1].s
        /\ Windows[i].e < Windows[i + 1].s
        /\ Windows[i].outcome = "rows"
    /\ (LoopEntered /\ pc = "window") =>
        /\ Len(bodies) = Len(Windows) - 1
        /\ out = FirstOccurrences(Flatten(bodies))

C22_Witness ==
    /\ LoopEntered
    /\ pc = "window"
    /\ rpc = "send"
    /\ hist = <<>>
    /\ Len(Windows) = 2
    /\ Windows[1].outcome = "rows"
    /\ Windows[2].outcome = "pending"
    /\ Len(bodies[1]) = 2
    /\ Len(out) = 1

\* C23: the rows a successful windowed fetch returns are the rows of the
\* window responses, concatenated in window order, without every later row
\* of a run accession already seen: the first row of an accession is the one
\* kept, the kept rows are in the order received, and every row returned was
\* received from a window.
C23_ResultIsFirstOccurrences ==
    WindowedOk =>
        /\ Len(bodies) = Len(Windows)
        /\ result.val = FirstOccurrences(Flatten(bodies))
        /\ Range(result.val) \subseteq Range(Flatten(bodies))

C23_Witness ==
    /\ WindowedOk
    /\ Len(bodies) = 2
    /\ Len(bodies[1]) = 2
    /\ Len(bodies[2]) = 2
    /\ bodies[1][1].run_accession = Some("SRR000001")
    /\ bodies[1][2].run_accession = Some("SRR000002")
    /\ bodies[2][1].run_accession = Some("SRR000001")
    /\ bodies[2][1] # bodies[1][1]
    /\ bodies[2][2].run_accession = None
    /\ result.val = <<bodies[1][1], bodies[1][2], bodies[2][2]>>

(***************************************************************************)
(* Properties of list_studies, checked under SpecCli.                      *)
(***************************************************************************)

\* C14: a fixed-release-window fetch whose end date is before its start date
\* issues no request (no handshake probe, no search), and what it returns is
\* an error.
C14_EmptyRangeRejectedBeforeNetwork ==
    (mode = "between" /\ last_day < first_day) =>
        /\ reqlog = <<>>
        /\ pc = "done" => ~result.ok

(***************************************************************************)
(* Properties of the reduction, checked under SpecReduce.                  *)
(***************************************************************************)

\* the rows consumed so far that belong to study acc, as indices of runs
RowsOf(acc) == {i \in 1..idx : runs[i].study_accession = acc}
\* the map holds every study of the rows, none handed to the table yet
Folding == pc \in {"fold", "rows"} /\ table = <<>>
Folded == pc = "rows" /\ table = <<>>
Least(set) == CHOOSE x \in set : \A y \in set : ~StrLess(y, x)
NonEmptyFirstPublic(acc) ==
    {runs[i].first_public[1] :
        i \in {j \in RowsOf(acc) : runs[j].first_public \notin {None, Some(<<>>)}}}

\* C18: for every study and every sequence of its rows, rows without a
\* first_public and rows whose first_public is the empty string included, the
\* release date of the aggregate is the lexicographic minimum of the non-empty
\* first_public values of the study's rows.
C18_ReleaseIsEarliestFirstPublic ==
    Folding =>
        \A acc \in DOMAIN by_study :
            NonEmptyFirstPublic(acc) # {} =>
                by_study[acc].release = Least(NonEmptyFirstPublic(acc))

\* the distinct non-empty species names of the rows of study acc
SpeciesOf(acc) ==
    {runs[i].scientific_name[1] :
        i \in {j \in 1..Len(runs) : /\ runs[j].study_accession = acc
                                    /\ runs[j].scientific_name \notin {None, Some(<<>>)}}}

\* the same names in the order the row stream first shows them
RECURSIVE FirstSeen(_, _, _)
FirstSeen(acc, i, seen) ==
    IF i > Len(runs) THEN seen
    ELSE IF /\ runs[i].study_accession = acc
            /\ runs[i].scientific_name \notin {None, Some(<<>>)}
            /\ runs[i].scientific_name[1] \notin Range(seen)
         THEN FirstSeen(acc, i + 1, Append(seen, runs[i].scientific_name[1]))
         ELSE FirstSeen(acc, i + 1, seen)

\* C19 as stated: the species column of a study with more than 5 distinct
\* non-empty species names holds the first 5 distinct names in the order the
\* row stream showed them.
C19_FirstFiveEncountered ==
    \A i \in 1..Len(table) :
        Cardinality(SpeciesOf(table[i].acc)) > SpeciesCap =>
            table[i].species = join(SubSeq(FirstSeen(table[i].acc, 1, <<>>), 1, SpeciesCap))

\* C19: the species column of a study with more than 5 distinct non-empty
\* species names holds exactly 5 names: the 5 least of the distinct names in
\* the byte order of strings, in ascending order, whatever the order of the
\* rows.
C19_FiveLeastInAscendingOrder ==
    \A i \in 1..Len(table) :
        Cardinality(SpeciesOf(table[i].acc)) > SpeciesCap =>
            \E kept \in SUBSET SpeciesOf(table[i].acc) :
                /\ Cardinality(kept) = SpeciesCap
                /\ \A k \in kept : \A n \in SpeciesOf(table[i].acc) \ kept : StrLess(k, n)
                /\ table[i].species = join(Sorted(kept))

C19_Witness ==
    /\ pc = "print"
    /\ Len(table) = 1
    /\ Cardinality(SpeciesOf(table[1].acc)) = SpeciesCap + 1
    /\ FirstSeen(table[1].acc, 1, <<>>) # Sorted(SpeciesOf(table[1].acc))
    /\ table[1].species # join(SubSeq(FirstSeen(table[1].acc, 1, <<>>), 1, SpeciesCap))

\* the rows with the rows at positions i and j exchanged; every permutation is
\* a product of such exchanges, and the inputs of SpecReduce are closed under
\* them
Exchange(rs, i, j) ==
    [k \in 1..Len(rs) |-> IF k = i THEN rs[j] ELSE IF k = j THEN rs[i] ELSE rs[k]]
Exchanges == {Exchange(runs, i, j) : i, j \in 1..Len(runs)}
NonEmptyTitles(acc) ==
    {runs[i].study_title[1] :
        i \in {j \in 1..Len(runs) : /\ runs[j].study_accession = acc
                                    /\ runs[j].study_title \notin {None, Some(<<>>)}}}

Parses(r) == r.base_count # None /\ parse_base_count(r.base_count[1]) # None
Contribution(r) == IF Parses(r) THEN parse_base_count(r.base_count[1])[1] ELSE Zero

\* the exact sum, in unbounded arithmetic, of what rows 1..i add to study acc
RECURSIVE ExactSum(_, _)
ExactSum(acc, i) ==
    IF i = 0 THEN Zero
    ELSE IF runs[i].study_accession = acc
         THEN BigAdd(ExactSum(acc, i - 1), Contribution(runs[i]), 0)
         ELSE ExactSum(acc, i - 1)

\* C21: the base total of a study is the exact sum of the base_count values
\* of its rows that parse as unsigned integers; a row whose base_count is
\* absent or does not parse adds nothing and is folded like any other row, no
\* error being returned; the sum is never reduced by a wrap-around.
C21_BaseTotalIsExactSum ==
    Folding =>
        /\ DOMAIN by_study = {runs[i].study_accession : i \in 1..idx}
        /\ ~Returned(result)
        /\ \A acc \in DOMAIN by_study : by_study[acc].bases = ExactSum(acc, idx)

C21_Witness ==
    /\ Folded
    /\ \E acc \in DOMAIN by_study :
        /\ BigLess(U64Max, by_study[acc].bases)
        /\ \E i \in RowsOf(acc) : ~Parses(runs[i])
        /\ \E i, j \in RowsOf(acc) : i # j /\ Parses(runs[i]) /\ Parses(runs[j])

\* a search request (the full-range request or a window) answered 2xx with a
\* body that decoded
SearchSucceeded ==
    \E i \in 1..Len(reqlog) :
        reqlog[i].kind \in {"full", "window"} /\ reqlog[i].outcome = "rows"

\* C24: fetch_runs_since returns Ok only if some search request, the
\* full-range request or a window, answered 2xx with a body that decoded,
\* whatever the since date, one after today included.
C24_OkOnlyAfterSuccessfulSearch ==
    (mode = "since" /\ pc = "done" /\ result.ok) => SearchSucceeded

====
